---- MODULE Spec2Model ----
(***************************************************************************)
(* Dutch-auction clearing and settlement engine (fairdrop-linera, auction  *)
(* application contract).  One module: the contract state, one action per  *)
(* exposed operation, and the properties checked against them.             *)
(*                                                                         *)
(* Units.  Timestamps are counted in minutes (60 000 000 microseconds), so *)
(* one_hour_micros is 60 and ninety_days_micros is 129600.  An Amount is   *)
(* an unsigned integer whose arithmetic saturates at AMOUNT_MAX; the width *)
(* (u128 in the program) is scaled down so that saturation is reachable.   *)
(***************************************************************************)
EXTENDS Integers, Sequences, FiniteSets, TLC

\* ------------------------------------------------------------------ bounds
MaxBids == 2
AMOUNT_MAX == 4999
TokenFunding == 50

\* ------------------------------------------------------- program constants
one_hour_micros == 60
ninety_days_micros == 129600

Users == {"u1", "u2"}
NoSigner == "nobody"
Callers == Users \cup {NoSigner}
Escrow == "app"
Owners == Users \cup {Escrow}

Quantities == {0, 10, 60}
Times == {0, 1, 2, 21, 61, 129601}
AuctionIds == {0, 1}
SingleIds == {0}

None == {}
Some(v) == {v}
Unwrap(o) == CHOOSE v \in o : TRUE

Min(a, b) == IF a <= b THEN a ELSE b
Max(a, b) == IF a >= b THEN a ELSE b

\* ------------------------------------------------------- Amount arithmetic
saturating_add(a, b) == IF a > AMOUNT_MAX - b THEN AMOUNT_MAX ELSE a + b
saturating_sub(a, b) == IF b > a THEN 0 ELSE a - b
saturating_mul(a, b) ==
    IF a = 0 \/ b = 0 THEN 0
    ELSE IF a > AMOUNT_MAX \div b THEN AMOUNT_MAX
    ELSE a * b

\* Timestamp::delta_since saturates at zero
delta_since(t, earlier) == IF earlier > t THEN 0 ELSE t - earlier

\* ---------------------------------------------------- creation parameters
\* The pricing curves and time windows offered to CreateAuction.  Creation
\* validates nothing, so a zero decay interval, a floor above the start
\* price, a zero supply and an end before the start are all accepted.
ParamChoices ==
    { [total_supply |-> 50, start_price |-> 100, floor_price |-> 10,
       price_decay_interval |-> 1, price_decay_amount |-> 1,
       start_time |-> 1, end_time |-> 20, creator |-> "u1"],
      [total_supply |-> 3, start_price |-> 2, floor_price |-> 1,
       price_decay_interval |-> 0, price_decay_amount |-> 1,
       start_time |-> 1, end_time |-> 2, creator |-> "u1"],
      [total_supply |-> 0, start_price |-> 2, floor_price |-> 1,
       price_decay_interval |-> 1, price_decay_amount |-> 1,
       start_time |-> 1, end_time |-> 2, creator |-> "u2"] }

VARIABLES
    now,                \* runtime.system_time()
    auctions,           \* AuctionState.auctions, keyed by auction id
    user_auction_bids,  \* AuctionState.user_auction_bids, <<user, auction>> -> list
    user_totals,        \* AuctionState.user_totals, <<auction, user>> -> quantity
    next_auction_id,    \* AuctionState.next_auction_id
    next_bid_id,        \* AuctionState.next_bid_id
    accounts,           \* payment token ledger (FungibleTokenState.accounts)
    token_accounts,     \* auction token ledger (FungibleTokenState.accounts)
    received,           \* history: what claims transferred, <<auction, user>> -> [quantity, refund]
    paid_in,            \* history: payments collected, <<auction, user>> -> amount
    lastOp,             \* the operation just executed and its outcome
    events              \* the events that operation emitted, in order

state == <<auctions, user_auction_bids, user_totals, next_auction_id, next_bid_id>>
ledgers == <<accounts, token_accounts>>
history == <<received, paid_in>>
vars == <<now, auctions, user_auction_bids, user_totals, next_auction_id,
          next_bid_id, accounts, token_accounts, received, paid_in, lastOp, events>>

\* ------------------------------------------------------------ price decay
\* mutant: the price rises by one step per interval
calculate_current_price_rising(start_price, floor_price, price_decay_amount, price_decay_interval, start_time, current_time) ==
    IF current_time < start_time THEN start_price
    ELSE Max(saturating_add(start_price,
                 saturating_mul(price_decay_amount,
                     delta_since(current_time, start_time) \div price_decay_interval)),
             floor_price)

calculate_current_price_ceil(start_price, floor_price, price_decay_amount, price_decay_interval, start_time, current_time) ==
    IF current_time < start_time THEN start_price
    ELSE Max(saturating_sub(start_price,
                 saturating_mul(price_decay_amount,
                     (delta_since(current_time, start_time) + price_decay_interval - 1)
                         \div price_decay_interval)),
             floor_price)

calculate_current_price(start_price, floor_price, price_decay_amount, price_decay_interval, start_time, current_time) ==
    IF current_time < start_time THEN start_price
    ELSE LET elapsed_micros == delta_since(current_time, start_time)
             intervals_passed == elapsed_micros \div price_decay_interval
             total_decay == saturating_mul(price_decay_amount, intervals_passed)
         IN  Max(saturating_sub(start_price, total_decay), floor_price)

\* the division by price_decay_interval panics when the interval is zero
price_panics(p, t) == t >= p.start_time /\ p.price_decay_interval = 0

current_price_of(auction, t) ==
    calculate_current_price(auction.params.start_price, auction.params.floor_price,
                            auction.params.price_decay_amount,
                            auction.params.price_decay_interval,
                            auction.params.start_time, t)

\* ------------------------------------------------------------ AuctionData
\* mutant: every new auction starts Scheduled, whatever the time
AuctionData_new_always_scheduled(params, current_time) ==
    [params |-> params,
     current_price |-> params.start_price,
     last_price_update |-> params.start_time,
     total_supply |-> params.total_supply,
     sold |-> 0,
     clearing_price |-> None,
     status |-> "Scheduled",
     settled_at |-> None,
     bids_pruned |-> FALSE,
     total_bids |-> 0,
     total_bidders |-> 0]

AuctionData_new(params, current_time) ==
    [params |-> params,
     current_price |-> params.start_price,
     last_price_update |-> params.start_time,
     total_supply |-> params.total_supply,
     sold |-> 0,
     clearing_price |-> None,
     status |-> IF current_time < params.start_time THEN "Scheduled" ELSE "Active",
     settled_at |-> None,
     bids_pruned |-> FALSE,
     total_bids |-> 0,
     total_bidders |-> 0]

Exists(a) == a \in DOMAIN auctions

\* ------------------------------------------------------- fungible ledger
credit(accts, account, amount) ==
    IF amount = 0 THEN accts
    ELSE [accts EXCEPT ![account] = saturating_add(accts[account], amount)]

\* mutant: a debit the balance cannot cover goes through
debit_never_panics(accts, account, amount) == FALSE

debit_panics(accts, account, amount) == amount # 0 /\ accts[account] < amount

debit(accts, account, amount) ==
    IF amount = 0 THEN accts
    ELSE [accts EXCEPT ![account] = accts[account] - amount]

transfer(accts, owner, amount, target) == credit(debit(accts, owner, amount), target, amount)

\* ------------------------------------------------------------------ Init
\* The payment token's whole supply is at most the largest Amount, held
\* either by one bidder or split between the two.
InitialLedgers ==
    { [o \in Owners |-> IF o = "u1" THEN AMOUNT_MAX ELSE 0],
      [o \in Owners |-> IF o = "u1" THEN 1000
                        ELSE IF o = "u2" THEN AMOUNT_MAX - 1000 ELSE 0] }

NoOp == [op |-> "init", outcome |-> "ok"]

Init ==
    /\ now = 0
    /\ auctions = <<>>
    /\ user_auction_bids = [k \in Users \X AuctionIds |-> <<>>]
    /\ user_totals = [k \in AuctionIds \X Users |-> 0]
    /\ next_auction_id = 0
    /\ next_bid_id = 0
    /\ accounts \in InitialLedgers
    /\ token_accounts = [o \in Owners |-> IF o = Escrow THEN TokenFunding ELSE 0]
    /\ received = [k \in AuctionIds \X Users |-> [quantity |-> 0, refund |-> 0]]
    /\ paid_in = [k \in AuctionIds \X Users |-> 0]
    /\ lastOp = NoOp
    /\ events = <<>>

\* An operation that panics aborts as a whole: nothing it wrote is kept and
\* nothing it emitted is published.  The record keeps the panic's cause.
Aborted(op, a, reason) ==
    /\ lastOp' = [op |-> op, auction_id |-> a, outcome |-> "aborted", reason |-> reason]
    /\ events' = <<>>
    /\ UNCHANGED <<state, ledgers, history>>

\* An operation that ran to completion: who called it, its outcome, the
\* status values it wrote (in order) and the events it emitted (in order).
Done(op, caller, a, outcome, writes, evs) ==
    /\ lastOp' = [op |-> op, caller |-> caller, auction_id |-> a,
                  outcome |-> outcome, writes |-> writes]
    /\ events' = evs

\* ------------------------------------------------------- the block clock
\* The block time moves on to the next instant; no operation runs.
AdvanceTime ==
    /\ \E t \in Times : t > now /\ (\A u \in Times : u > now => t <= u) /\ now' = t
    /\ lastOp' = [op |-> "tick", outcome |-> "ok"]
    /\ events' = <<>>
    /\ UNCHANGED <<state, ledgers, history>>

\* ---------------------------------------------------------- CreateAuction
is_authenticated_always(caller) == TRUE

\* runtime.authenticated_signer() is Some for every caller but NoSigner.
is_authenticated(caller) == caller # NoSigner

handle_create_auction(caller, params) ==
    /\ UNCHANGED now
    /\ IF ~is_authenticated(caller)
       THEN Aborted("create", next_auction_id, "unauthenticated")
       ELSE LET auction_id == next_auction_id IN
            /\ next_auction_id' = auction_id + 1
            /\ auctions' = [a \in (DOMAIN auctions) \cup {auction_id} |->
                               IF a = auction_id THEN AuctionData_new(params, now)
                               ELSE auctions[a]]
            /\ Done("create", caller, auction_id, "created", <<>>,
                    << [type |-> "AuctionCreated", auction_id |-> auction_id,
                        params |-> params, creator |-> caller] >>)
            /\ UNCHANGED <<user_auction_bids, user_totals, next_bid_id, ledgers, history>>

CreateAuction ==
    \E caller \in Callers, params \in ParamChoices :
        /\ next_auction_id \in SingleIds
        /\ handle_create_auction(caller, params)

\* The auction identifiers operations are issued against; an identifier
\* not yet created is a missing auction.
Targets == SingleIds

\* ---------------------------------------------------------- CancelAuction
\* mutant: an auction can be cancelled as long as it is not settled
can_cancel_unsettled(status) == status \in {"Scheduled", "Active"}

can_cancel(status) == status = "Scheduled"

is_creator_any_signer(caller, auction) == TRUE

is_creator(caller, auction) == caller = auction.params.creator

handle_cancel_auction(caller, auction_id) ==
    /\ UNCHANGED now
    /\ IF ~Exists(auction_id) THEN Aborted("cancel", auction_id, "auction not found")
       ELSE IF ~is_authenticated(caller) THEN Aborted("cancel", auction_id, "unauthenticated")
       ELSE IF ~is_creator(caller, auctions[auction_id])
            THEN Aborted("cancel", auction_id, "not the creator")
       ELSE IF ~can_cancel(auctions[auction_id].status)
            THEN Aborted("cancel", auction_id, "not scheduled")
       ELSE /\ auctions' = [auctions EXCEPT ![auction_id].status = "Cancelled"]
            /\ Done("cancel", caller, auction_id, "cancelled", <<"Cancelled">>,
                    << [type |-> "AuctionCancelled", auction_id |-> auction_id] >>)
            /\ UNCHANGED <<user_auction_bids, user_totals, next_auction_id,
                           next_bid_id, ledgers, history>>

CancelAuction ==
    \E caller \in Callers, auction_id \in Targets :
        handle_cancel_auction(caller, auction_id)

\* ----------------------------------------------------- settle_auction
\* Sets the status and the settlement time of an auction whose clearing
\* price has just been written; yields the auction and the event.
\* mutant: the event reports the supply offered, not the quantity sold
settle_auction_reports_supply(auction, auction_id, t) ==
    [auction |-> [auction EXCEPT !.status = "Settled", !.settled_at = Some(t)],
     event |-> [type |-> "AuctionSettled", auction_id |-> auction_id,
                clearing_price |-> Unwrap(auction.clearing_price),
                total_bidders |-> auction.total_bidders,
                total_sold |-> auction.total_supply]]

settle_auction(auction, auction_id, t) ==
    [auction |-> [auction EXCEPT !.status = "Settled", !.settled_at = Some(t)],
     event |-> [type |-> "AuctionSettled", auction_id |-> auction_id,
                clearing_price |-> Unwrap(auction.clearing_price),
                total_bidders |-> auction.total_bidders,
                total_sold |-> auction.sold]]

\* ------------------------------------------------- validate_auction_state
\* "Active" for a Scheduled -> Active transition, "ready" when no
\* transition is needed, otherwise the rejection reason.
\* mutant: a Scheduled auction opens on any bid, whatever the time
validate_auction_state_opens_early(current_status, start_time, end_time, t) ==
    IF current_status = "Scheduled" THEN "Active"
    ELSE IF t > end_time /\ current_status = "Active" THEN "expired"
    ELSE IF current_status # "Active" THEN "not active"
    ELSE "ready"

\* mutant: an auction that is neither Scheduled nor Active still takes bids
validate_auction_state_bids_when_closed(current_status, start_time, end_time, t) ==
    IF current_status = "Scheduled"
    THEN IF t >= start_time THEN "Active" ELSE "not started"
    ELSE IF t > end_time /\ current_status = "Active" THEN "expired"
    ELSE "ready"

validate_auction_state(current_status, start_time, end_time, t) ==
    IF current_status = "Scheduled"
    THEN IF t >= start_time THEN "Active" ELSE "not started"
    ELSE IF t > end_time /\ current_status = "Active" THEN "expired"
    ELSE IF current_status # "Active" THEN "not active"
    ELSE "ready"

BidRejected(auction_id, bidder, reason) ==
    [type |-> "BidRejected", auction_id |-> auction_id, user_account |-> bidder,
     reason |-> reason]

\* ----------------------------------------------------------- validate_bid
\* The result of the validation phase: ok (FALSE = rejected), the auction
\* as the phase leaves it, the status writes and events it made, and the
\* BidValidation fields.
\* mutant: the expiry check forgets the status, so a settled auction settles again
is_expired_any_status(t, end_time, current_status) == t > end_time

is_expired(t, end_time, current_status) == t > end_time /\ current_status = "Active"

\* mutant: the requested quantity is accepted without the cap at the remaining supply
accepted_quantity_uncapped(quantity, remaining) == quantity

accepted_quantity_of(quantity, remaining) == Min(quantity, remaining)

\* mutant: the unit price is charged whatever the quantity
bid_amount_unit_price(current_price, accepted_quantity) == current_price

bid_amount_paid(current_price, accepted_quantity) ==
    saturating_mul(current_price, accepted_quantity)

\* mutant: exhaustion is detected only when the supply is exceeded
will_exhaust_supply_strict(sold, accepted_quantity, total_supply) ==
    saturating_add(sold, accepted_quantity) > total_supply

\* mutant: every accepted bid settles the auction
will_exhaust_supply_always(sold, accepted_quantity, total_supply) == TRUE

will_exhaust_supply(sold, accepted_quantity, total_supply) ==
    saturating_add(sold, accepted_quantity) >= total_supply

\* mutant: on expiry the rejection is emitted before the settlement
validate_bid_rejects_before_settling(auction, auction_id, quantity, bidder, t) ==
    LET current_price == current_price_of(auction, t)
        current_status == auction.status
        start_time == auction.params.start_time
        end_time == auction.params.end_time
        total_supply == auction.total_supply
        sold == auction.sold
        rejected(a, writes, evs, reason) ==
            [ok |-> FALSE, auction |-> a, writes |-> writes, events |-> evs,
             reason |-> reason, accepted_quantity |-> 0, amount_paid |-> 0,
             current_price |-> current_price, should_settle |-> FALSE]
    IN
    IF is_expired(t, end_time, current_status)
    THEN LET s == settle_auction([auction EXCEPT !.clearing_price = Some(current_price)],
                                 auction_id, t)
         IN  rejected(s.auction, <<"Settled">>,
                      <<BidRejected(auction_id, bidder, "expired"), s.event>>, "expired")
    ELSE LET new_status == validate_auction_state(current_status, start_time, end_time, t)
         IN
         IF new_status \notin {"Active", "ready"}
         THEN rejected(auction, <<>>, <<BidRejected(auction_id, bidder, new_status)>>,
                       new_status)
         ELSE LET a1 == IF new_status = "Active"
                        THEN [auction EXCEPT !.status = "Active"] ELSE auction
                  w1 == IF new_status = "Active" THEN <<"Active">> ELSE <<>>
                  remaining == saturating_sub(total_supply, sold)
                  accepted_quantity == accepted_quantity_of(quantity, remaining)
                  amount_paid == bid_amount_paid(current_price, accepted_quantity)
              IN
              IF remaining = 0
              THEN rejected(a1, w1, <<BidRejected(auction_id, bidder, "supply exhausted")>>,
                            "supply exhausted")
              ELSE [ok |-> TRUE, auction |-> a1, writes |-> w1, events |-> <<>>,
                    reason |-> "", accepted_quantity |-> accepted_quantity,
                    amount_paid |-> amount_paid, current_price |-> current_price,
                    should_settle |-> will_exhaust_supply(sold, accepted_quantity, total_supply)]

validate_bid(auction, auction_id, quantity, bidder, t) ==
    LET current_price == current_price_of(auction, t)
        current_status == auction.status
        start_time == auction.params.start_time
        end_time == auction.params.end_time
        total_supply == auction.total_supply
        sold == auction.sold
        rejected(a, writes, evs, reason) ==
            [ok |-> FALSE, auction |-> a, writes |-> writes, events |-> evs,
             reason |-> reason, accepted_quantity |-> 0, amount_paid |-> 0,
             current_price |-> current_price, should_settle |-> FALSE]
    IN
    IF is_expired(t, end_time, current_status)
    THEN LET s == settle_auction([auction EXCEPT !.clearing_price = Some(current_price)],
                                 auction_id, t)
         IN  rejected(s.auction, <<"Settled">>,
                      <<s.event, BidRejected(auction_id, bidder, "expired")>>, "expired")
    ELSE LET new_status == validate_auction_state(current_status, start_time, end_time, t)
         IN
         IF new_status \notin {"Active", "ready"}
         THEN rejected(auction, <<>>, <<BidRejected(auction_id, bidder, new_status)>>,
                       new_status)
         ELSE LET a1 == IF new_status = "Active"
                        THEN [auction EXCEPT !.status = "Active"] ELSE auction
                  w1 == IF new_status = "Active" THEN <<"Active">> ELSE <<>>
                  remaining == saturating_sub(total_supply, sold)
                  accepted_quantity == accepted_quantity_of(quantity, remaining)
                  amount_paid == bid_amount_paid(current_price, accepted_quantity)
              IN
              IF remaining = 0
              THEN rejected(a1, w1, <<BidRejected(auction_id, bidder, "supply exhausted")>>,
                            "supply exhausted")
              ELSE [ok |-> TRUE, auction |-> a1, writes |-> w1, events |-> <<>>,
                    reason |-> "", accepted_quantity |-> accepted_quantity,
                    amount_paid |-> amount_paid, current_price |-> current_price,
                    should_settle |-> will_exhaust_supply(sold, accepted_quantity, total_supply)]

\* ------------------------------------------------------------ execute_bid
new_bid_reused_id(auction_id, v, bidder, t) ==
    [bid_id |-> 0, auction_id |-> auction_id, user_account |-> bidder,
     quantity |-> v.accepted_quantity, amount_paid |-> v.amount_paid,
     timestamp |-> t, claimed |-> FALSE]

new_bid(auction_id, v, bidder, t) ==
    [bid_id |-> next_bid_id, auction_id |-> auction_id, user_account |-> bidder,
     quantity |-> v.accepted_quantity, amount_paid |-> v.amount_paid,
     timestamp |-> t, claimed |-> FALSE]

execute_bid_counts_every_bid(auction, accepted_quantity, is_first_bid) ==
    [auction EXCEPT !.sold = saturating_add(auction.sold, accepted_quantity),
                    !.total_bids = auction.total_bids + 1,
                    !.total_bidders = auction.total_bidders + 1]

execute_bid(auction, accepted_quantity, is_first_bid) ==
    [auction EXCEPT !.sold = saturating_add(auction.sold, accepted_quantity),
                    !.total_bids = auction.total_bids + 1,
                    !.total_bidders = IF is_first_bid THEN auction.total_bidders + 1
                                      ELSE auction.total_bidders]

\* -------------------------------------------------------- collect_payment
\* mutant: the bidder is debited but the escrow is not credited
collect_payment_not_escrowed(accts, bidder, amount) == debit(accts, bidder, amount)

collect_payment(accts, bidder, amount) == transfer(accts, bidder, amount, Escrow)

\* What the payment application answers to the Transfer call; any answer
\* other than Ok makes collect_payment return Err.
FungibleResponses == {"Ok", "Balance"}
collect_payment_fails(response) == response # "Ok"

\* ------------------------------------------------------------------- Buy
user_total_overwritten(user_total, accepted_quantity) == accepted_quantity

user_total_after(user_total, accepted_quantity) ==
    saturating_add(user_total, accepted_quantity)

handle_place_bid(caller, auction_id, quantity, response) ==
    /\ UNCHANGED now
    /\ IF ~is_authenticated(caller) THEN Aborted("bid", auction_id, "unauthenticated")
       ELSE
       IF ~Exists(auction_id) THEN Aborted("bid", auction_id, "auction not found")
       ELSE
       IF price_panics(auctions[auction_id].params, now)
       THEN Aborted("bid", auction_id, "division by zero")
       ELSE
       LET v == validate_bid(auctions[auction_id], auction_id, quantity, caller, now) IN
       IF ~v.ok
       THEN /\ auctions' = [auctions EXCEPT ![auction_id] = v.auction]
            /\ Done("bid", caller, auction_id, "rejected", v.writes, v.events)
            /\ UNCHANGED <<user_auction_bids, user_totals, next_auction_id,
                           next_bid_id, ledgers, history>>
       ELSE
       IF collect_payment_fails(response)
       THEN /\ auctions' = [auctions EXCEPT ![auction_id] = v.auction]
            /\ Done("bid", caller, auction_id, "rejected", v.writes,
                    <<BidRejected(auction_id, caller, "payment failed")>>)
            /\ UNCHANGED <<user_auction_bids, user_totals, next_auction_id,
                           next_bid_id, ledgers, history>>
       ELSE
       IF debit_panics(accounts, caller, v.amount_paid)
       THEN Aborted("bid", auction_id, "insufficient balance")
       ELSE
       LET bid == new_bid(auction_id, v, caller, now)
           user_bids == user_auction_bids[<<caller, auction_id>>]
           is_first_bid == user_bids = <<>>
           a2 == execute_bid(v.auction, v.accepted_quantity, is_first_bid)
           s == settle_auction([a2 EXCEPT !.clearing_price = Some(v.current_price)],
                               auction_id, now)
           bid_events ==
               << [type |-> "PaymentReceived", auction_id |-> auction_id,
                   user_account |-> caller, amount |-> bid.amount_paid,
                   bid_id |-> bid.bid_id],
                  [type |-> "BidAccepted", auction_id |-> auction_id,
                   bid_id |-> bid.bid_id, user_account |-> caller,
                   quantity |-> bid.quantity, amount_paid |-> bid.amount_paid,
                   total_sold |-> a2.sold,
                   remaining |-> saturating_sub(a2.total_supply, a2.sold)] >>
       IN
       /\ next_bid_id < MaxBids
       /\ accounts' = collect_payment(accounts, caller, v.amount_paid)
       /\ next_bid_id' = next_bid_id + 1
       /\ user_auction_bids' =
              [user_auction_bids EXCEPT ![<<caller, auction_id>>] = Append(user_bids, bid)]
       /\ user_totals' =
              [user_totals EXCEPT ![<<auction_id, caller>>] =
                  user_total_after(user_totals[<<auction_id, caller>>], v.accepted_quantity)]
       /\ paid_in' = [paid_in EXCEPT ![<<auction_id, caller>>] =
                         saturating_add(paid_in[<<auction_id, caller>>], v.amount_paid)]
       /\ auctions' = [auctions EXCEPT ![auction_id] =
                          IF v.should_settle THEN s.auction ELSE a2]
       /\ lastOp' = [op |-> "bid", caller |-> caller, auction_id |-> auction_id,
                     outcome |-> "accepted", quantity |-> quantity,
                     writes |-> IF v.should_settle THEN v.writes \o <<"Settled">>
                                ELSE v.writes]
       /\ events' = IF v.should_settle THEN bid_events \o <<s.event>> ELSE bid_events
       /\ UNCHANGED <<next_auction_id, token_accounts, received>>

Buy ==
    \E caller \in Callers, auction_id \in Targets, quantity \in Quantities,
       response \in FungibleResponses :
        handle_place_bid(caller, auction_id, quantity, response)

\* ------------------------------------------------------- ClaimSettlement
unclaimed_bids(user_bids) == SelectSeq(user_bids, LAMBDA bid : ~bid.claimed)

RECURSIVE total_quantity_of(_)
total_quantity_of(bids) ==
    IF bids = <<>> THEN 0
    ELSE saturating_add(total_quantity_of(SubSeq(bids, 1, Len(bids) - 1)),
                        bids[Len(bids)].quantity)

RECURSIVE total_paid_of(_)
total_paid_of(bids) ==
    IF bids = <<>> THEN 0
    ELSE saturating_add(total_paid_of(SubSeq(bids, 1, Len(bids) - 1)),
                        bids[Len(bids)].amount_paid)

\* mutant: the cost is taken to be what was paid, so nothing is refunded
calculate_settlement_no_refund(unclaimed, clearing_price) ==
    [total_quantity |-> total_quantity_of(unclaimed),
     total_paid |-> total_paid_of(unclaimed),
     total_cost |-> total_paid_of(unclaimed),
     refund |-> 0]

calculate_settlement(unclaimed, clearing_price) ==
    LET total_quantity == total_quantity_of(unclaimed)
        total_paid == total_paid_of(unclaimed)
        total_cost == saturating_mul(clearing_price, total_quantity)
    IN  [total_quantity |-> total_quantity,
         total_paid |-> total_paid,
         total_cost |-> total_cost,
         refund |-> saturating_sub(total_paid, total_cost)]

\* mutant: the claimed flags are not written back
mark_claimed_forgotten(user_bids) == user_bids

mark_claimed_and_zeroed(user_bids) ==
    [i \in DOMAIN user_bids |-> [user_bids[i] EXCEPT !.claimed = TRUE, !.amount_paid = 0]]

mark_claimed(user_bids) ==
    [i \in DOMAIN user_bids |-> [user_bids[i] EXCEPT !.claimed = TRUE]]

\* mutant: the refund is credited to the bidder without debiting the escrow
refund_payment_not_debited(accts, bidder, refund_amount) == credit(accts, bidder, refund_amount)

refund_payment(accts, bidder, refund_amount) ==
    IF refund_amount = 0 THEN accts ELSE transfer(accts, Escrow, refund_amount, bidder)

\* mutant: the allocation is paid to a fixed account, not to the claimant
auction_token_transfer_to_first(accts, bidder, allocated_quantity) == IF allocated_quantity = 0 THEN accts ELSE transfer(accts, Escrow, allocated_quantity, "u1")

auction_token_transfer(accts, bidder, allocated_quantity) ==
    IF allocated_quantity = 0 THEN accts
    ELSE transfer(accts, Escrow, allocated_quantity, bidder)

handle_claim_settlement(caller, auction_id) ==
    /\ UNCHANGED now
    /\ IF ~is_authenticated(caller) THEN Aborted("claim", auction_id, "unauthenticated")
       ELSE
       IF ~Exists(auction_id) THEN Aborted("claim", auction_id, "auction not found")
       ELSE
       IF auctions[auction_id].status # "Settled"
       THEN Aborted("claim", auction_id, "not settled")
       ELSE
       LET clearing_price == Unwrap(auctions[auction_id].clearing_price)
           user_bids == user_auction_bids[<<caller, auction_id>>]
           unclaimed == unclaimed_bids(user_bids)
           settlement == calculate_settlement(unclaimed, clearing_price)
           refund_events ==
               IF settlement.refund = 0 THEN <<>>
               ELSE << [type |-> "RefundIssued", auction_id |-> auction_id,
                        user_account |-> caller,
                        refund_amount |-> settlement.refund] >>
       IN
       IF unclaimed = <<>>
       THEN /\ Done("claim", caller, auction_id, "nothing to claim", <<>>, <<>>)
            /\ UNCHANGED <<state, ledgers, history>>
       ELSE
       IF \/ debit_panics(accounts, Escrow, settlement.refund)
          \/ debit_panics(token_accounts, Escrow, settlement.total_quantity)
       THEN Aborted("claim", auction_id, "transfer failed")
       ELSE
       /\ user_auction_bids' =
              [user_auction_bids EXCEPT ![<<caller, auction_id>>] = mark_claimed(user_bids)]
       /\ accounts' = refund_payment(accounts, caller, settlement.refund)
       /\ token_accounts' =
              auction_token_transfer(token_accounts, caller, settlement.total_quantity)
       /\ received' =
              [received EXCEPT ![<<auction_id, caller>>] =
                  [quantity |-> @.quantity + settlement.total_quantity,
                   refund |-> @.refund + settlement.refund]]
       /\ Done("claim", caller, auction_id, "claimed", <<>>,
               refund_events \o
               << [type |-> "SettlementClaimed", auction_id |-> auction_id,
                   user_account |-> caller,
                   allocated_quantity |-> settlement.total_quantity,
                   clearing_price |-> clearing_price,
                   total_cost |-> settlement.total_cost,
                   refund |-> settlement.refund] >>)
       /\ UNCHANGED <<auctions, user_totals, next_auction_id, next_bid_id, paid_in>>

ClaimSettlement ==
    \E caller \in Callers, auction_id \in Targets :
        handle_claim_settlement(caller, auction_id)

\* --------------------------------------------------- PruneSettledAuction
prune_bids_claimed_only(user_bids, prune_all) == SelectSeq(user_bids, LAMBDA bid : ~bid.claimed)

prune_bids_everything(user_bids, prune_all) == <<>>

prune_bids(user_bids, prune_all) ==
    IF prune_all THEN <<>> ELSE unclaimed_bids(user_bids)

can_prune_after_hour(elapsed) == elapsed > one_hour_micros

can_prune(elapsed) == elapsed >= one_hour_micros

handle_prune_settled_auction(caller, auction_id) ==
    /\ UNCHANGED now
    /\ IF ~Exists(auction_id) THEN Aborted("prune", auction_id, "auction not found")
       ELSE
       IF auctions[auction_id].status # "Settled"
       THEN Aborted("prune", auction_id, "not settled")
       ELSE
       LET settled_at == Unwrap(auctions[auction_id].settled_at)
           elapsed == delta_since(now, settled_at)
           prune_all == elapsed >= ninety_days_micros
       IN
       IF ~can_prune(elapsed)
       THEN Aborted("prune", auction_id, "too early")
       ELSE
       /\ user_auction_bids' =
              [k \in DOMAIN user_auction_bids |->
                  IF k[2] = auction_id
                  THEN prune_bids(user_auction_bids[k], prune_all)
                  ELSE user_auction_bids[k]]
       /\ auctions' = IF prune_all
                      THEN [auctions EXCEPT ![auction_id].bids_pruned = TRUE]
                      ELSE auctions
       /\ Done("prune", caller, auction_id,
               IF prune_all THEN "pruned all" ELSE "pruned claimed", <<>>, <<>>)
       /\ UNCHANGED <<user_totals, next_auction_id, next_bid_id, ledgers, history>>

PruneSettledAuction ==
    \E caller \in Callers, auction_id \in Targets :
        handle_prune_settled_auction(caller, auction_id)

Next ==
    \/ AdvanceTime
    \/ CreateAuction
    \/ CancelAuction
    \/ Buy
    \/ ClaimSettlement
    \/ PruneSettledAuction

Spec == Init /\ [][Next]_vars

\* ------------------------------------------------------ the price function
\* calculate_current_price applied to inputs drawn from bounded sets: the
\* inputs are fixed by the initial state and the function is evaluated at
\* later and later times.
PriceStarts == {0, 10, 100, AMOUNT_MAX}
PriceFloors == {0, 10, 200}
PriceDecays == {0, 1, 7, AMOUNT_MAX}
PriceIntervals == {0, 1, 60}
PriceStartTimes == {0, 5}
PriceTimes == {0, 4, 5, 6, 64, 65, 125, 4204, 4205, 6005, 6065}

PriceInputs ==
    [start_price : PriceStarts, floor_price : PriceFloors,
     price_decay_amount : PriceDecays, price_decay_interval : PriceIntervals,
     start_time : PriceStartTimes]

InitPrice ==
    /\ now = 0
    /\ auctions = <<>>
    /\ user_auction_bids = [k \in Users \X AuctionIds |-> <<>>]
    /\ user_totals = [k \in AuctionIds \X Users |-> 0]
    /\ next_auction_id = 0
    /\ next_bid_id = 0
    /\ accounts = [o \in Owners |-> 0]
    /\ token_accounts = [o \in Owners |-> 0]
    /\ received = [k \in AuctionIds \X Users |-> [quantity |-> 0, refund |-> 0]]
    /\ paid_in = [k \in AuctionIds \X Users |-> 0]
    /\ lastOp \in {[op |-> "inputs", outcome |-> "ok", params |-> p] : p \in PriceInputs}
    /\ events = <<>>

EvaluatePrice ==
    \E t \in PriceTimes :
        /\ t > now
        /\ now' = t
        /\ lastOp' =
               IF price_panics(lastOp.params, t)
               THEN [op |-> "price", outcome |-> "aborted", params |-> lastOp.params,
                     reason |-> "division by zero"]
               ELSE [op |-> "price", outcome |-> "ok", params |-> lastOp.params,
                     price |-> calculate_current_price(
                                   lastOp.params.start_price, lastOp.params.floor_price,
                                   lastOp.params.price_decay_amount,
                                   lastOp.params.price_decay_interval,
                                   lastOp.params.start_time, t)]
        /\ UNCHANGED <<state, ledgers, history, events>>

NextPrice == EvaluatePrice

SpecPrice == InitPrice /\ [][NextPrice]_vars

\* ------------------------------------------------- two auctions side by side
\* The same handlers driven against two auctions, with well-formed
\* parameters, signed callers and a payment application that answers Ok.
TimesTwo == {1, 61, 129661}
QuantitiesTwo == {10, 60}
ParamsTwo == {p \in ParamChoices : p.total_supply > 0 /\ p.price_decay_interval > 0}
LedgerTwo == [o \in Owners |-> IF o = Escrow THEN 0 ELSE 2000]

InitTwo ==
    /\ now = 0
    /\ auctions = <<>>
    /\ user_auction_bids = [k \in Users \X AuctionIds |-> <<>>]
    /\ user_totals = [k \in AuctionIds \X Users |-> 0]
    /\ next_auction_id = 0
    /\ next_bid_id = 0
    /\ accounts = LedgerTwo
    /\ token_accounts = [o \in Owners |-> IF o = Escrow THEN TokenFunding ELSE 0]
    /\ received = [k \in AuctionIds \X Users |-> [quantity |-> 0, refund |-> 0]]
    /\ paid_in = [k \in AuctionIds \X Users |-> 0]
    /\ lastOp = NoOp
    /\ events = <<>>

AdvanceTimeTwo ==
    /\ \E t \in TimesTwo : t > now /\ (\A u \in TimesTwo : u > now => t <= u) /\ now' = t
    /\ lastOp' = [op |-> "tick", outcome |-> "ok"]
    /\ events' = <<>>
    /\ UNCHANGED <<state, ledgers, history>>

CreateAuctionTwo ==
    \E caller \in Users, params \in ParamsTwo :
        /\ next_auction_id \in AuctionIds
        /\ handle_create_auction(caller, params)

BuyTwo ==
    \E caller \in Users, auction_id \in AuctionIds, quantity \in QuantitiesTwo :
        handle_place_bid(caller, auction_id, quantity, "Ok")

ClaimSettlementTwo ==
    \E caller \in Users, auction_id \in AuctionIds :
        handle_claim_settlement(caller, auction_id)

PruneSettledAuctionTwo ==
    \E auction_id \in AuctionIds : handle_prune_settled_auction("u1", auction_id)

CancelAuctionTwo ==
    \E caller \in Users, auction_id \in AuctionIds :
        handle_cancel_auction(caller, auction_id)

NextTwo ==
    \/ AdvanceTimeTwo
    \/ CreateAuctionTwo
    \/ CancelAuctionTwo
    \/ BuyTwo
    \/ ClaimSettlementTwo
    \/ PruneSettledAuctionTwo

SpecTwo == InitTwo /\ [][NextTwo]_vars

\* ===================================================================
\* Properties
\* ===================================================================
Authenticated(op) == ~(op.outcome = "aborted" /\ op.reason = "unauthenticated")
Completed(op, name, outcome) == op.op = name /\ op.outcome = outcome

\* C1: for every auction, over every operation, the sold quantity never
\* decreases, and after every operation it is at most total_supply.
C1_SoldMonotoneBounded ==
    [][ /\ \A a \in DOMAIN auctions' : auctions'[a].sold <= auctions'[a].total_supply
        /\ \A a \in DOMAIN auctions : auctions'[a].sold >= auctions[a].sold ]_vars

\* C1 witness: a second accepted bid was capped and brought sold up to a
\* positive total_supply.
C1_Witness ==
    /\ Completed(lastOp, "bid", "accepted")
    /\ LET a == auctions[lastOp.auction_id] IN
       /\ a.total_bids = 2
       /\ a.sold = a.total_supply
       /\ a.total_supply > 0
       /\ lastOp.quantity > a.total_supply - 10

\* What one claim over all of a bidder's bids on an auction would pay out:
\* the whole accepted quantity, and the payments less that quantity's cost
\* at the clearing price.
OneClaimQuantity(a, u) == user_totals[<<a, u>>]
OneClaimRefund(a, u) ==
    saturating_sub(paid_in[<<a, u>>],
                   saturating_mul(Unwrap(auctions[a].clearing_price), user_totals[<<a, u>>]))

PaidAtMostOnce ==
    \A a \in DOMAIN auctions : \A u \in Users :
        IF auctions[a].status = "Settled"
        THEN /\ received[<<a, u>>].quantity <= OneClaimQuantity(a, u)
             /\ received[<<a, u>>].refund <= OneClaimRefund(a, u)
        ELSE received[<<a, u>>] = [quantity |-> 0, refund |-> 0]

\* C2: the payout and the refund transferred to a bidder for an auction
\* never exceed what one claim over all of that bidder's bids would pay, and
\* a claim that directly follows a completed claim by the same caller on the
\* same auction transfers nothing, emits nothing and changes no state.
C2_ClaimPaysOnce ==
    [][ /\ PaidAtMostOnce'
        /\ ( /\ lastOp.op = "claim" /\ lastOp.outcome # "aborted"
             /\ lastOp'.op = "claim" /\ lastOp'.outcome # "aborted"
             /\ lastOp'.caller = lastOp.caller
             /\ lastOp'.auction_id = lastOp.auction_id )
           => ( /\ lastOp'.outcome = "nothing to claim"
                /\ events' = <<>>
                /\ UNCHANGED <<state, ledgers, history>> ) ]_vars

\* C2 witness: a second claim right after one that paid out a refund.
C2_Witness ==
    /\ Completed(lastOp, "claim", "nothing to claim")
    /\ received[<<lastOp.auction_id, lastOp.caller>>].quantity > 0
    /\ received[<<lastOp.auction_id, lastOp.caller>>].refund > 0
    /\ \E i \in DOMAIN user_auction_bids[<<lastOp.caller, lastOp.auction_id>>] :
           user_auction_bids[<<lastOp.caller, lastOp.auction_id>>][i].claimed

RECURSIVE SumQuantity(_)
SumQuantity(bids) ==
    IF bids = <<>> THEN 0 ELSE SumQuantity(Tail(bids)) + Head(bids).quantity

RECURSIVE SumPaid(_)
SumPaid(bids) ==
    IF bids = <<>> THEN 0 ELSE SumPaid(Tail(bids)) + Head(bids).amount_paid

\* The terms of a completed claim, read off the step that made it: the
\* claimant's unclaimed bids before the step, the clearing price, and the
\* settlement-claimed event.
ClaimTerms ==
    LET u == lastOp'.caller
        a == lastOp'.auction_id
        unclaimed == unclaimed_bids(user_auction_bids[<<u, a>>])
    IN  [claimant |-> u,
         quantity |-> SumQuantity(unclaimed),
         paid |-> SumPaid(unclaimed),
         clearing_price |-> Unwrap(auctions[a].clearing_price),
         event |-> events'[Len(events')]]

ClaimIsExact(c, total_cost) ==
    /\ c.event.type = "SettlementClaimed"
    /\ c.event.allocated_quantity = c.quantity
    /\ c.event.total_cost = total_cost
    /\ c.event.refund = c.paid - c.event.total_cost
    /\ c.paid = c.event.total_cost + c.event.refund
    /\ accounts'[c.claimant] = accounts[c.claimant] + c.event.refund
    /\ accounts'[Escrow] = accounts[Escrow] - c.event.refund
    /\ token_accounts'[c.claimant] = token_accounts[c.claimant] + c.quantity

\* C3 as stated: a claim computes total_cost = (sum of the claimant's
\* unclaimed quantities) x clearing_price, refund = total_paid - total_cost,
\* and total_paid = total_cost + refund exactly.
C3_Original ==
    [][ Completed(lastOp', "claim", "claimed")
        => ClaimIsExact(ClaimTerms, ClaimTerms.quantity * ClaimTerms.clearing_price) ]_vars

\* C3 amended: total_cost is that product saturated at the largest Amount
\* (the multiplication saturates); refund = total_paid - total_cost and
\* total_paid = total_cost + refund hold exactly, the subtraction never
\* truncating.
C3_ClaimExactSaturating ==
    [][ Completed(lastOp', "claim", "claimed")
        => ClaimIsExact(ClaimTerms,
                        Min(ClaimTerms.quantity * ClaimTerms.clearing_price, AMOUNT_MAX)) ]_vars

\* C3 witness: the auction cleared at 80 and both bidders, who each bought
\* 10 units at price 100, have claimed and received a refund of 200.
C3_Witness ==
    /\ Completed(lastOp, "claim", "claimed")
    /\ auctions[lastOp.auction_id].clearing_price = Some(80)
    /\ \A u \in Users :
          /\ paid_in[<<lastOp.auction_id, u>>] = 1000
          /\ user_totals[<<lastOp.auction_id, u>>] = 10
          /\ received[<<lastOp.auction_id, u>>] = [quantity |-> 10, refund |-> 200]

\* The decayed price of section 4.1, stated over the integers: start_price
\* before the start, otherwise start_price less one decay step per whole
\* interval elapsed, not below zero and not below floor_price.
DecayedPrice(p, t) ==
    IF t < p.start_time THEN p.start_price
    ELSE LET steps == (t - p.start_time) \div p.price_decay_interval
             decay == IF p.price_decay_amount = 0 \/ steps = 0 THEN 0
                      ELSE IF steps > p.start_price \div p.price_decay_amount
                           THEN p.start_price + 1
                      ELSE p.price_decay_amount * steps
         IN  Max(IF decay > p.start_price THEN 0 ELSE p.start_price - decay, p.floor_price)

BidsUntouched ==
    UNCHANGED <<user_auction_bids, user_totals, next_bid_id, next_auction_id, ledgers, history>>

CountersUntouched(a) ==
    /\ auctions'[a].sold = auctions[a].sold
    /\ auctions'[a].total_bids = auctions[a].total_bids
    /\ auctions'[a].total_bidders = auctions[a].total_bidders

\* An authenticated place-bid on the existing auction a whose status is
\* Active, evaluated after its end_time.
BidOnExpired(a) ==
    /\ lastOp'.op = "bid" /\ lastOp'.auction_id = a /\ Authenticated(lastOp')
    /\ auctions[a].status = "Active"
    /\ now > auctions[a].params.end_time

ExpiredBidSettles(a) ==
    /\ Completed(lastOp', "bid", "rejected")
    /\ BidsUntouched
    /\ CountersUntouched(a)
    /\ auctions'[a].status = "Settled"
    /\ auctions'[a].clearing_price = Some(DecayedPrice(auctions[a].params, now))
    /\ auctions'[a].settled_at = Some(now)

\* C4: a place-bid at now > end_time against an Active auction is always
\* rejected (no bid record, sold and counters unchanged, no payment) and in
\* the same operation the auction becomes Settled with clearing_price the
\* decayed price at now and settled_at = now.
C4_ExpiredBidSettles ==
    [][ \A a \in DOMAIN auctions : BidOnExpired(a) => ExpiredBidSettles(a) ]_vars

\* C4, restricted to auctions whose decay interval is not zero (the case
\* creation was meant to exclude): there the claim holds.
C4_HoldsForPositiveInterval ==
    [][ \A a \in DOMAIN auctions :
          (BidOnExpired(a) /\ auctions[a].params.price_decay_interval # 0)
              => ExpiredBidSettles(a) ]_vars

\* C4, reached: a bid has just settled an expired auction.
C4_Reached ==
    /\ Completed(lastOp, "bid", "rejected")
    /\ lastOp.writes = <<"Settled">>
    /\ auctions[lastOp.auction_id].status = "Settled"
    /\ auctions[lastOp.auction_id].sold < auctions[lastOp.auction_id].total_supply

\* C5: when an accepted bid brings sold to total_supply the auction is
\* Settled by the end of that operation, with clearing_price the price at
\* which the bid was accepted; and after no operation is an auction Active
\* with sold = total_supply > 0.
C5_ExhaustionSettles ==
    [][ /\ \A a \in DOMAIN auctions' :
              ~( /\ auctions'[a].status = "Active"
                 /\ auctions'[a].sold = auctions'[a].total_supply
                 /\ auctions'[a].total_supply > 0 )
        /\ \A a \in DOMAIN auctions :
              ( /\ Completed(lastOp', "bid", "accepted")
                /\ lastOp'.auction_id = a
                /\ auctions'[a].sold = auctions'[a].total_supply )
              => ( /\ auctions'[a].status = "Settled"
                   /\ auctions'[a].clearing_price =
                          Some(DecayedPrice(auctions[a].params, now))
                   /\ auctions'[a].settled_at = Some(now)
                   /\ events'[Len(events')].type = "AuctionSettled"
                   /\ events'[2].amount_paid =
                          Min(events'[2].quantity * DecayedPrice(auctions[a].params, now),
                              AMOUNT_MAX) ) ]_vars

\* C5 witness: the bid that exhausted the supply settled the auction, after
\* an earlier bid at a higher price.
C5_Witness ==
    /\ Completed(lastOp, "bid", "accepted")
    /\ LET a == auctions[lastOp.auction_id] IN
       /\ a.status = "Settled"
       /\ a.sold = a.total_supply
       /\ a.total_bids = 2
       /\ a.clearing_price = Some(99)
       /\ a.settled_at = Some(now)

\* C6: after every operation an auction's clearing_price is set if and only
\* if its status is Settled, and once it is set no operation changes it or
\* settled_at.
C6_ClearingPriceFixed ==
    [][ /\ \A a \in DOMAIN auctions' :
              (auctions'[a].clearing_price # None) <=> (auctions'[a].status = "Settled")
        /\ \A a \in DOMAIN auctions :
              auctions[a].clearing_price # None
              => /\ auctions'[a].clearing_price = auctions[a].clearing_price
                 /\ auctions'[a].settled_at = auctions[a].settled_at ]_vars

\* C6 witness: a bid arrives, after the end_time, at an auction that was
\* settled earlier, and is turned away.
C6_Witness ==
    /\ Completed(lastOp, "bid", "rejected")
    /\ events = <<BidRejected(lastOp.auction_id, lastOp.caller, "not active")>>
    /\ LET a == auctions[lastOp.auction_id] IN
       /\ a.status = "Settled"
       /\ a.clearing_price # None
       /\ now > Unwrap(a.settled_at)
       /\ now > a.params.end_time

\* C7: every bid record has an acceptance timestamp at most its auction's
\* end_time.
C7_NoBidAfterEnd ==
    \A k \in DOMAIN user_auction_bids :
        \A i \in DOMAIN user_auction_bids[k] :
            user_auction_bids[k][i].timestamp
                <= auctions[user_auction_bids[k][i].auction_id].params.end_time

\* C8: a place-bid on a Scheduled auction at now < start_time is rejected
\* as not started and changes no state: status, bid records, sold, counters,
\* user totals and balances are as before.
C8_NotStartedRejected ==
    [][ \A a \in DOMAIN auctions :
          ( /\ lastOp'.op = "bid" /\ lastOp'.auction_id = a /\ Authenticated(lastOp')
            /\ auctions[a].status = "Scheduled"
            /\ now < auctions[a].params.start_time )
          => ( /\ Completed(lastOp', "bid", "rejected")
               /\ events' = <<BidRejected(a, lastOp'.caller, "not started")>>
               /\ UNCHANGED <<state, ledgers, history>> ) ]_vars

\* C8 witness: a bid on a Scheduled auction was rejected as not started.
C8_Witness ==
    /\ Completed(lastOp, "bid", "rejected")
    /\ events = <<BidRejected(lastOp.auction_id, lastOp.caller, "not started")>>
    /\ auctions[lastOp.auction_id].status = "Scheduled"
    /\ now < auctions[lastOp.auction_id].params.start_time

\* The status values an operation wrote to auction a, in order.
StatusWrites(op, a) ==
    IF op.outcome # "aborted" /\ op.op \in {"bid", "cancel", "claim", "prune"}
       /\ op.auction_id = a
    THEN op.writes ELSE <<>>

\* The legal status changes, each with its cause.
LegalEdge(from, to, op, a) ==
    \/ /\ from = "Scheduled" /\ to = "Active"
       /\ op.op = "bid" /\ now >= auctions[a].params.start_time
    \/ /\ from = "Scheduled" /\ to = "Cancelled" /\ op.op = "cancel"
    \/ /\ from = "Active" /\ to = "Settled" /\ op.op = "bid"
       /\ \/ auctions'[a].sold >= auctions'[a].total_supply
          \/ now > auctions[a].params.end_time

\* C9: every status write follows one of the edges Scheduled -> Active (a
\* bid at now >= start_time), Scheduled -> Cancelled (cancel), Active ->
\* Settled (exhaustion or expiry on a bid); nothing leaves Settled or
\* Cancelled.
C9_StatusEdges ==
    [][ \A a \in DOMAIN auctions :
          LET path == <<auctions[a].status>> \o StatusWrites(lastOp', a) IN
          /\ auctions'[a].status = path[Len(path)]
          /\ \A i \in 1 .. (Len(path) - 1) :
                 LegalEdge(path[i], path[i + 1], lastOp', a) ]_vars

\* C9 witness: one bid opened a Scheduled auction and exhausted it, so the
\* status went Scheduled -> Active -> Settled within the operation.
C9_Witness ==
    /\ Completed(lastOp, "bid", "accepted")
    /\ lastOp.writes = <<"Active", "Settled">>
    /\ auctions[lastOp.auction_id].status = "Settled"

\* The record of the bid an accepted place-bid has just appended.
NewBid ==
    LET bids == user_auction_bids'[<<lastOp'.caller, lastOp'.auction_id>>]
    IN  bids[Len(bids)]

BidIsRecorded(a, amount_paid) ==
    /\ Len(user_auction_bids'[<<lastOp'.caller, a>>])
           = Len(user_auction_bids[<<lastOp'.caller, a>>]) + 1
    /\ NewBid.quantity = Min(lastOp'.quantity, auctions[a].total_supply - auctions[a].sold)
    /\ NewBid.amount_paid = amount_paid
    /\ NewBid.timestamp = now
    /\ ~NewBid.claimed
    /\ accounts'[Escrow] = accounts[Escrow] + NewBid.amount_paid
    /\ accounts'[lastOp'.caller] = accounts[lastOp'.caller] - NewBid.amount_paid

\* C10 as stated: an accepted bid records accepted = min(requested,
\* total_supply - sold) and amount_paid = accepted x (decayed price at the
\* bid's time), and exactly amount_paid moves from the bidder to escrow.
C10_Original ==
    [][ \A a \in DOMAIN auctions :
          (Completed(lastOp', "bid", "accepted") /\ lastOp'.auction_id = a)
          => BidIsRecorded(a, NewBid.quantity * DecayedPrice(auctions[a].params, now)) ]_vars

\* C10 amended: amount_paid is that product saturated at the largest Amount.
C10_BidRecordedSaturating ==
    [][ \A a \in DOMAIN auctions :
          (Completed(lastOp', "bid", "accepted") /\ lastOp'.auction_id = a)
          => BidIsRecorded(a, Min(NewBid.quantity * DecayedPrice(auctions[a].params, now),
                                  AMOUNT_MAX)) ]_vars

\* C10 witness: start_price 100, floor 10, one step per interval, supply
\* 50; a bid for 60 one interval after the start is accepted for 50 at 99,
\* pays 4950, and the auction is settled at 99.
C10_Witness ==
    /\ Completed(lastOp, "bid", "accepted")
    /\ lastOp.quantity = 60
    /\ LET a == auctions[lastOp.auction_id]
           bids == user_auction_bids[<<lastOp.caller, lastOp.auction_id>>]
       IN  /\ a.params.start_price = 100 /\ a.params.floor_price = 10
           /\ a.params.price_decay_amount = 1 /\ a.params.price_decay_interval = 1
           /\ a.total_supply = 50
           /\ now = a.params.start_time + 1
           /\ bids = << [bid_id |-> 0, auction_id |-> lastOp.auction_id,
                         user_account |-> lastOp.caller, quantity |-> 50,
                         amount_paid |-> 4950, timestamp |-> now, claimed |-> FALSE] >>
           /\ a.status = "Settled"
           /\ a.clearing_price = Some(99)
           /\ accounts[Escrow] = 4950

\* A place-bid whose payment could not be collected: the payment
\* application answered the transfer with a failure, or the transfer
\* aborted for lack of funds.
PaymentFailed(op, evs) ==
    /\ op.op = "bid"
    /\ \/ op.outcome = "aborted" /\ op.reason = "insufficient balance"
       \/ /\ op.outcome = "rejected"
          /\ evs # <<>>
          /\ evs[Len(evs)].type = "BidRejected"
          /\ evs[Len(evs)].reason = "payment failed"

\* C11: a place-bid whose payment collection fails is rejected and mutates
\* no state: auction record (status included), bid records, sold, counters,
\* user totals and balances are as before.
C11_PaymentFailureChangesNothing ==
    [][ PaymentFailed(lastOp', events')
            => (lastOp'.outcome # "accepted" /\ UNCHANGED <<state, ledgers, history>>) ]_vars

\* C11, the part that does hold: a failed payment leaves bid records, sold,
\* counters, user totals and every balance as they were.
C11_PaymentFailureKeepsBidsAndBalances ==
    [][ PaymentFailed(lastOp', events')
            => /\ BidsUntouched
               /\ \A a \in DOMAIN auctions :
                      [auctions'[a] EXCEPT !.status = auctions[a].status] = auctions[a] ]_vars

\* An authenticated place-bid on the existing auction a, whose decay
\* interval is not zero.
BidOn(a) ==
    /\ lastOp'.op = "bid" /\ lastOp'.auction_id = a /\ Authenticated(lastOp')
    /\ auctions[a].params.price_decay_interval # 0

RejectedUnchanged ==
    /\ Completed(lastOp', "bid", "rejected")
    /\ Len(events') = 1 /\ events'[1].type = "BidRejected"
    /\ UNCHANGED <<state, ledgers, history>>

\* C12: a place-bid that finds no remaining supply, or that targets a
\* Settled or Cancelled auction, is rejected with a rejection event and
\* changes no state.
C12_NoSupplyOrClosedRejected ==
    [][ \A a \in DOMAIN auctions :
          ( /\ BidOn(a)
            /\ \/ auctions[a].total_supply - auctions[a].sold = 0
               \/ auctions[a].status \in {"Settled", "Cancelled"} )
          => RejectedUnchanged ]_vars

\* C12, the part that does hold: a place-bid on a Settled or Cancelled
\* auction is rejected with one rejection event and changes no state.
C12_ClosedRejected ==
    [][ \A a \in DOMAIN auctions :
          (BidOn(a) /\ auctions[a].status \in {"Settled", "Cancelled"})
          => RejectedUnchanged ]_vars

C13_AbortedOnActive ==
    /\ lastOp.op = "cancel" /\ lastOp.outcome = "aborted"
    /\ lastOp.reason = "not scheduled"
    /\ auctions[lastOp.auction_id].status = "Active"
    /\ auctions[lastOp.auction_id].total_bids > 0

SinceSettled(a) == now - Unwrap(auctions[a].settled_at)

\* C14: a prune of an auction that is not Settled, or less than one hour
\* after settled_at, is rejected with no state change; from exactly one hour
\* after settled_at on it is allowed.
C14_PruneGuard ==
    [][ \A a \in DOMAIN auctions :
          (lastOp'.op = "prune" /\ lastOp'.auction_id = a)
          => IF auctions[a].status # "Settled" \/ SinceSettled(a) < one_hour_micros
             THEN /\ lastOp'.outcome = "aborted"
                  /\ events' = <<>>
                  /\ UNCHANGED <<state, ledgers, history>>
             ELSE lastOp'.outcome \in {"pruned claimed", "pruned all"} ]_vars

\* C14 witness: a prune ran exactly one hour after settlement and removed
\* a claimed bid.
C14_Witness ==
    /\ Completed(lastOp, "prune", "pruned claimed")
    /\ SinceSettled(lastOp.auction_id) = one_hour_micros
    /\ auctions[lastOp.auction_id].total_bids = 2
    /\ \E u \in Users : /\ received[<<lastOp.auction_id, u>>].quantity > 0
                        /\ user_auction_bids[<<u, lastOp.auction_id>>] = <<>>

\* C14, reached: a prune one minute short of the hour was rejected.
C14_TooEarlyReached ==
    /\ lastOp.op = "prune" /\ lastOp.outcome = "aborted" /\ lastOp.reason = "too early"
    /\ SinceSettled(lastOp.auction_id) = one_hour_micros - 1

\* C15: a prune 90 days or more after settled_at removes every bid-list
\* entry of that auction for every bidder, claimed or not, sets the
\* auction's bids_pruned flag, and leaves the bid lists of all other auctions
\* unchanged.
C15_PruneAllAfterNinetyDays ==
    [][ \A a \in DOMAIN auctions :
          ( /\ lastOp'.op = "prune" /\ lastOp'.auction_id = a
            /\ auctions[a].status = "Settled"
            /\ SinceSettled(a) >= ninety_days_micros )
          => /\ lastOp'.outcome = "pruned all"
             /\ \A u \in Users : user_auction_bids'[<<u, a>>] = <<>>
             /\ auctions' = [auctions EXCEPT ![a].bids_pruned = TRUE]
             /\ \A k \in DOMAIN user_auction_bids :
                    k[2] # a => user_auction_bids'[k] = user_auction_bids[k] ]_vars

\* C15 witness: exactly 90 days after settlement a prune has removed a
\* bidder's unclaimed bid on the auction while a bid list of the other
\* auction is still in place.
C15_Witness ==
    /\ Completed(lastOp, "prune", "pruned all")
    /\ LET a == lastOp.auction_id IN
       /\ SinceSettled(a) = ninety_days_micros
       /\ auctions[a].bids_pruned
       /\ auctions[a].total_bids > 0
       /\ \A u \in Users : user_auction_bids[<<u, a>>] = <<>>
       /\ \E u \in Users : paid_in[<<a, u>>] > 0 /\ received[<<a, u>>].quantity = 0
       /\ \E k \in DOMAIN user_auction_bids : k[2] # a /\ user_auction_bids[k] # <<>>

\* The bids of a list that a claim would still pay.
Unclaimed(bids) == SelectSeq(bids, LAMBDA b : ~b.claimed)

\* What a claim by u on a would pay: quantity and paid-in total of u's
\* unclaimed bids.
ClaimOwed(bids) == [quantity |-> SumQuantity(Unclaimed(bids)), paid |-> SumPaid(Unclaimed(bids))]

\* C16: a prune at least one hour and less than 90 days after settled_at
\* removes exactly the claimed bid records of that auction and keeps every
\* unclaimed record unchanged and in order, so what a later claim pays any
\* bidder is unchanged; bids_pruned stays false.
C16_PruneClaimedOnly ==
    [][ \A a \in DOMAIN auctions :
          ( /\ lastOp'.op = "prune" /\ lastOp'.auction_id = a
            /\ auctions[a].status = "Settled"
            /\ SinceSettled(a) >= one_hour_micros
            /\ SinceSettled(a) < ninety_days_micros )
          => /\ lastOp'.outcome = "pruned claimed"
             /\ \A u \in Users :
                    /\ user_auction_bids'[<<u, a>>] = Unclaimed(user_auction_bids[<<u, a>>])
                    /\ ClaimOwed(user_auction_bids'[<<u, a>>])
                           = ClaimOwed(user_auction_bids[<<u, a>>])
             /\ \A k \in DOMAIN user_auction_bids :
                    k[2] # a => user_auction_bids'[k] = user_auction_bids[k]
             /\ ~auctions'[a].bids_pruned
             /\ UNCHANGED <<auctions, user_totals, next_auction_id, next_bid_id,
                            ledgers, history>> ]_vars

\* C16 witness: after a prune removed one bidder's claimed bid, the other
\* bidder claimed and was paid the full quantity and refund of the bid.
C16_Witness ==
    /\ Completed(lastOp, "claim", "claimed")
    /\ LET a == lastOp.auction_id
           u == lastOp.caller
       IN  /\ ~auctions[a].bids_pruned
           /\ \E w \in Users \ {u} :
                  /\ received[<<a, w>>].quantity > 0
                  /\ user_auction_bids[<<w, a>>] = <<>>
           /\ received[<<a, u>>].quantity = user_totals[<<a, u>>]
           /\ received[<<a, u>>].quantity > 0
           /\ received[<<a, u>>].refund > 0
           /\ received[<<a, u>>].refund
                  = paid_in[<<a, u>>]
                    - user_totals[<<a, u>>] * Unwrap(auctions[a].clearing_price)

\* C17: a claim on an auction whose status is not Settled is a no-op and
\* not an error: it completes, transfers nothing, emits nothing and changes
\* no state.
C17_ClaimUnsettledNoOp ==
    [][ \A a \in DOMAIN auctions :
          ( /\ lastOp'.op = "claim" /\ lastOp'.auction_id = a /\ Authenticated(lastOp')
            /\ auctions[a].status \in {"Scheduled", "Active", "Cancelled"} )
          => /\ lastOp'.outcome = "nothing to claim"
             /\ events' = <<>>
             /\ UNCHANGED <<state, ledgers, history>> ]_vars

\* C17, the part that does hold: such a claim transfers nothing, emits
\* nothing and changes no state.
C17_ClaimUnsettledChangesNothing ==
    [][ \A a \in DOMAIN auctions :
          ( /\ lastOp'.op = "claim" /\ lastOp'.auction_id = a /\ Authenticated(lastOp')
            /\ auctions[a].status \in {"Scheduled", "Active", "Cancelled"} )
          => /\ events' = <<>>
             /\ UNCHANGED <<state, ledgers, history>> ]_vars

\* A create-auction, place-bid, claim or cancel step issued without an
\* authenticated signer.
UnauthenticatedStep ==
    \/ \E params \in ParamChoices : handle_create_auction(NoSigner, params)
    \/ \E a \in Targets, q \in Quantities, r \in FungibleResponses :
           handle_place_bid(NoSigner, a, q, r)
    \/ \E a \in Targets : handle_claim_settlement(NoSigner, a)
    \/ \E a \in Targets : handle_cancel_auction(NoSigner, a)

\* C18: a create-auction, place-bid, claim or cancel issued by an
\* unauthenticated caller aborts with no partial effect: no auction or bid
\* is created, no counter advances, no status changes, nothing is
\* transferred and no event is emitted.
C18_UnauthenticatedAborts ==
    [][ UnauthenticatedStep
            => /\ lastOp'.outcome = "aborted"
               /\ events' = <<>>
               /\ UNCHANGED <<state, ledgers, history>> ]_vars

\* C18 witness: an unsigned bid on an Active auction, in reach of a funded
\* account, has aborted.
C18_Witness ==
    /\ lastOp.op = "bid" /\ lastOp.outcome = "aborted"
    /\ lastOp.reason = "unauthenticated"
    /\ Exists(lastOp.auction_id)
    /\ auctions[lastOp.auction_id].status = "Active"
    /\ auctions[lastOp.auction_id].sold < auctions[lastOp.auction_id].total_supply
    /\ now <= auctions[lastOp.auction_id].params.end_time

\* C19: a prune issued by an unauthenticated caller aborts and removes no
\* bid record.
C19_UnauthenticatedPruneAborts ==
    [][ (\E a \in Targets : handle_prune_settled_auction(NoSigner, a))
            => /\ lastOp'.outcome = "aborted"
               /\ user_auction_bids' = user_auction_bids ]_vars

\* C19, weakened to its last clause: an unauthenticated prune removes no
\* bid record.  This too fails.
C19_UnauthenticatedPruneRemovesNothing ==
    [][ (\E a \in Targets : handle_prune_settled_auction(NoSigner, a))
            => user_auction_bids' = user_auction_bids ]_vars

\* Every stored bid record, as <<key, index>> positions.
BidPositions(bids) ==
    {p \in (DOMAIN bids) \X (1 .. MaxBids + 2) : p[2] <= Len(bids[p[1]])}

BidIdsUniqueAndOrdered(bids, next_id) ==
    \A p, q \in BidPositions(bids) :
        LET b == bids[p[1]][p[2]]
            c == bids[q[1]][q[2]]
        IN  /\ b.bid_id < next_id
            /\ p # q => b.bid_id # c.bid_id
            /\ (p[1] = q[1] /\ p[2] < q[2]) => b.bid_id < c.bid_id
            /\ b.timestamp < c.timestamp => b.bid_id < c.bid_id

\* C20: the auction-id and bid-id counters advance by exactly one per
\* successful creation and per accepted bid and not at all otherwise; bid
\* ids are unique across all auctions and increase in acceptance order, and
\* auction ids are unique (a creation takes an id no auction has).
C20_CountersAndIds ==
    [][ /\ next_auction_id' = next_auction_id
               + (IF Completed(lastOp', "create", "created") THEN 1 ELSE 0)
        /\ next_bid_id' = next_bid_id
               + (IF Completed(lastOp', "bid", "accepted") THEN 1 ELSE 0)
        /\ Completed(lastOp', "create", "created")
               => /\ next_auction_id \notin DOMAIN auctions
                  /\ DOMAIN auctions' = DOMAIN auctions \cup {next_auction_id}
                  /\ \A a \in DOMAIN auctions : auctions'[a] = auctions[a]
        /\ ~Completed(lastOp', "create", "created") => DOMAIN auctions' = DOMAIN auctions
        /\ Completed(lastOp', "bid", "accepted") => NewBid.bid_id = next_bid_id
        /\ BidIdsUniqueAndOrdered(user_auction_bids', next_bid_id') ]_vars

\* C20 witness: two auctions exist, bid 0 was accepted on the second and
\* bid 1 then on the first, and a rejected bid has left both counters at 2.
C20_Witness ==
    /\ Completed(lastOp, "bid", "rejected")
    /\ next_auction_id = 2 /\ next_bid_id = 2
    /\ \E u, w \in Users :
           /\ Len(user_auction_bids[<<u, 1>>]) = 1
           /\ user_auction_bids[<<u, 1>>][1].bid_id = 0
           /\ Len(user_auction_bids[<<w, 0>>]) = 1
           /\ user_auction_bids[<<w, 0>>][1].bid_id = 1

\* Every stored bid record.
AllBids(bids) == {bids[p[1]][p[2]] : p \in BidPositions(bids)}

\* A record as it reads with its claimed flag left out.
Unflagged(b) == [b EXCEPT !.claimed = FALSE]

\* C21: a bid record's bid id, auction id, bidder, quantity, amount paid and
\* timestamp never change; its claimed flag changes only from false to
\* true, and only in a claim by the record's bidder on the record's auction.
C21_BidRecordsImmutable ==
    [][ \A p \in BidPositions(user_auction_bids) :
          LET b == user_auction_bids[p[1]][p[2]] IN
          /\ b.user_account = p[1][1] /\ b.auction_id = p[1][2]
          /\ \A q \in BidPositions(user_auction_bids') :
                 LET c == user_auction_bids'[q[1]][q[2]] IN
                 c.bid_id = b.bid_id
                 => /\ q[1] = p[1]
                    /\ Unflagged(c) = Unflagged(b)
                    /\ b.claimed => c.claimed
                    /\ c.claimed # b.claimed
                         => /\ Completed(lastOp', "claim", "claimed")
                            /\ lastOp'.caller = b.user_account
                            /\ lastOp'.auction_id = b.auction_id ]_vars

\* C21 witness: a claim has just flagged the claimant's bid on one auction
\* while an unclaimed bid on the other auction stays as it was recorded.
C21_Witness ==
    /\ Completed(lastOp, "claim", "claimed")
    /\ \E b, c \in AllBids(user_auction_bids) :
           /\ b.user_account = lastOp.caller /\ b.auction_id = lastOp.auction_id
           /\ b.claimed /\ b.quantity > 0 /\ b.amount_paid > 0
           /\ c.auction_id # lastOp.auction_id
           /\ ~c.claimed /\ c.quantity > 0

\* The quantity this step had accepted for bidder u on auction a.
AcceptedNow(a, u) ==
    IF /\ Completed(lastOp', "bid", "accepted")
       /\ lastOp'.auction_id = a /\ lastOp'.caller = u
    THEN NewBid.quantity ELSE 0

RECURSIVE SumTotals(_, _)
SumTotals(a, users) ==
    IF users = {} THEN 0
    ELSE LET u == CHOOSE x \in users : TRUE
         IN  user_totals'[<<a, u>>] + SumTotals(a, users \ {u})

\* C22: for every (auction, bidder) the stored user total is the sum of the
\* quantities of the bids accepted from that bidder on that auction: it
\* starts at zero, grows by exactly the accepted quantity of each accepted
\* bid and is changed by nothing else; it covers the records still stored
\* and the totals of an auction add up to its sold quantity.
C22_UserTotals ==
    [][ \A a \in AuctionIds, u \in Users :
          /\ user_totals'[<<a, u>>] = user_totals[<<a, u>>] + AcceptedNow(a, u)
          /\ user_totals'[<<a, u>>] >= SumQuantity(user_auction_bids'[<<u, a>>])
          /\ a \in DOMAIN auctions' => SumTotals(a, Users) = auctions'[a].sold ]_vars

\* C22 witness: a bidder's two accepted bids of 10 were claimed and
\* pruned away, and the stored total is still 20.
C22_Witness ==
    /\ lastOp.op = "prune" /\ lastOp.outcome # "aborted"
    /\ \E u \in Users :
           /\ user_totals[<<lastOp.auction_id, u>>] = 20
           /\ user_auction_bids[<<u, lastOp.auction_id>>] = <<>>
           /\ received[<<lastOp.auction_id, u>>].quantity = 20
    /\ auctions[lastOp.auction_id].total_bids = 2

RECURSIVE CountBids(_, _, _)
CountBids(bids, a, users) ==
    IF users = {} THEN 0
    ELSE LET u == CHOOSE x \in users : TRUE
         IN  Len(bids[<<u, a>>]) + CountBids(bids, a, users \ {u})

Bidders(bids, a) == {u \in Users : bids[<<u, a>>] # <<>>}

AcceptedOn(a) == Completed(lastOp', "bid", "accepted") /\ lastOp'.auction_id = a

\* C23: an auction's total_bids is the number of bids ever accepted on it
\* and its total_bidders the number of distinct bidders with an accepted
\* bid: until the auction is settled both equal the counts over the stored
\* records (none has been pruned yet), each accepted bid adds one to
\* total_bids, and once the auction is settled nothing changes either.
C23_BidCounters ==
    [][ \A a \in DOMAIN auctions' :
          IF a \in DOMAIN auctions /\ auctions[a].status = "Settled"
          THEN /\ ~AcceptedOn(a)
               /\ auctions'[a].total_bids = auctions[a].total_bids
               /\ auctions'[a].total_bidders = auctions[a].total_bidders
          ELSE /\ auctions'[a].total_bids = CountBids(user_auction_bids', a, Users)
               /\ auctions'[a].total_bidders = Cardinality(Bidders(user_auction_bids', a))
               /\ a \in DOMAIN auctions
                    => auctions'[a].total_bids
                          = auctions[a].total_bids + (IF AcceptedOn(a) THEN 1 ELSE 0) ]_vars

\* C23 witness: a bidder's second bid was accepted; the auction counts two
\* bids and one bidder.
C23_Witness ==
    /\ Completed(lastOp, "bid", "accepted")
    /\ Len(user_auction_bids[<<lastOp.caller, lastOp.auction_id>>]) = 2
    /\ auctions[lastOp.auction_id].total_bids = 2
    /\ auctions[lastOp.auction_id].total_bidders = 1

\* The parameters of the worked example: start 100, floor 10, one step of
\* 1 per interval of 60, starting at 5.
ExampleParams ==
    [start_price |-> 100, floor_price |-> 10, price_decay_amount |-> 1,
     price_decay_interval |-> 60, start_time |-> 5]

Priced(op) == op.op = "price" /\ op.outcome = "ok"

\* C24: the price function returns start_price when now < start_time and
\* otherwise max(start_price -. decay_step x floor((now - start_time) /
\* decay_interval), floor_price), with -. saturating at zero; with start
\* 100, floor 10, step 1 per interval it returns 100 at start_time, 99 one
\* interval later and 10 after 100 intervals.
C24_PriceFormula ==
    Priced(lastOp)
    => /\ lastOp.price = DecayedPrice(lastOp.params, now)
       /\ lastOp.params = ExampleParams
            => /\ now = 5 => lastOp.price = 100
               /\ now = 64 => lastOp.price = 100
               /\ now = 65 => lastOp.price = 99
               /\ now = 6005 => lastOp.price = 10

\* C24 witness: the example evaluated 100 intervals after the start gives
\* the floor, 10.
C24_Witness ==
    /\ Priced(lastOp)
    /\ lastOp.params = ExampleParams
    /\ now = 5 + 100 * 60
    /\ lastOp.price = 10

\* C25: for all parameters accepted by creation the price never rises as
\* time advances, is never below floor_price, and equals start_price at
\* every time up to and including start_time.  Creation accepts every
\* parameter record, so the statement is made of every input.
C25_PriceMonotoneAboveFloor ==
    /\ [](Priced(lastOp)
            => /\ lastOp.price >= lastOp.params.floor_price
               /\ now <= lastOp.params.start_time
                    => lastOp.price = lastOp.params.start_price)
    /\ [][Priced(lastOp) /\ Priced(lastOp') => lastOp'.price <= lastOp.price]_vars

\* C26: creating an auction with a decay interval of 0 is rejected at
\* creation, so no stored auction has decay interval 0 and the price function
\* is never evaluated with a zero interval.
C26_ZeroIntervalRejected ==
    /\ \A a \in DOMAIN auctions : auctions[a].params.price_decay_interval # 0
    /\ ~(lastOp.outcome = "aborted" /\ lastOp.reason = "division by zero")

\* The positions, among the events of the last operation, of the
\* auction-settled events of auction a.
SettledEvents(evs, a) ==
    {i \in DOMAIN evs : evs[i].type = "AuctionSettled" /\ evs[i].auction_id = a}

ReachesSettled(a) ==
    /\ a \in DOMAIN auctions'
    /\ auctions'[a].status = "Settled"
    /\ a \in DOMAIN auctions => auctions[a].status # "Settled"

\* C27: exactly one auction-settled event is emitted for each auction that
\* reaches Settled and none for an auction that does not: an operation emits
\* one for auction a exactly when it moves a to Settled, and a Settled
\* auction stays Settled; the event carries the clearing_price,
\* total_bidders and sold of the stored auction as the operation leaves it.
C27_SettledEventOnce ==
    [][ \A a \in AuctionIds :
          /\ Cardinality(SettledEvents(events', a)) = (IF ReachesSettled(a) THEN 1 ELSE 0)
          /\ (a \in DOMAIN auctions /\ auctions[a].status = "Settled")
                => auctions'[a].status = "Settled"
          /\ \A i \in SettledEvents(events', a) :
                /\ Some(events'[i].clearing_price) = auctions'[a].clearing_price
                /\ events'[i].total_bidders = auctions'[a].total_bidders
                /\ events'[i].total_sold = auctions'[a].sold ]_vars

\* C27 witness: an auction settled on expiry with part of its supply sold;
\* the one event of the settlement stands beside the rejection of the bid
\* that triggered it.
C27_Witness ==
    /\ Completed(lastOp, "bid", "rejected")
    /\ auctions[lastOp.auction_id].status = "Settled"
    /\ auctions[lastOp.auction_id].sold > 0
    /\ auctions[lastOp.auction_id].sold < auctions[lastOp.auction_id].total_supply
    /\ Cardinality(SettledEvents(events, lastOp.auction_id)) = 1
    /\ \E i \in SettledEvents(events, lastOp.auction_id) :
          events[i].total_sold = auctions[lastOp.auction_id].sold

\* A place-bid by an authenticated caller on an existing auction.
AuthenticatedBidStep ==
    \E caller \in Users, a \in DOMAIN auctions, q \in Quantities, r \in FungibleResponses :
        handle_place_bid(caller, a, q, r)

EventsOfType(evs, type) == {i \in DOMAIN evs : evs[i].type = type}

\* C28: every place-bid by an authenticated caller on an existing auction
\* completes and emits either exactly one bid-rejected event with no bid
\* record added, or exactly one payment-received and one bid-accepted event
\* with exactly one bid record added; never both and never neither.
C28_BidCompletesOneOutcome ==
    [][ AuthenticatedBidStep
          => /\ lastOp'.outcome # "aborted"
             /\ \/ /\ Cardinality(EventsOfType(events', "BidRejected")) = 1
                   /\ EventsOfType(events', "PaymentReceived") = {}
                   /\ EventsOfType(events', "BidAccepted") = {}
                   /\ UNCHANGED <<user_auction_bids, next_bid_id>>
                \/ /\ EventsOfType(events', "BidRejected") = {}
                   /\ Cardinality(EventsOfType(events', "PaymentReceived")) = 1
                   /\ Cardinality(EventsOfType(events', "BidAccepted")) = 1
                   /\ next_bid_id' = next_bid_id + 1
                   /\ Cardinality(BidPositions(user_auction_bids'))
                        = Cardinality(BidPositions(user_auction_bids)) + 1 ]_vars

\* The refund a claim by u on the Settled auction a owes: what u's
\* unclaimed bids paid beyond their cost at the clearing price.
RefundOwed(a, u) ==
    LET owed == ClaimOwed(user_auction_bids[<<u, a>>])
        cost == Min(Unwrap(auctions[a].clearing_price) * owed.quantity, AMOUNT_MAX)
    IN  IF owed.paid > cost THEN owed.paid - cost ELSE 0

\* A claim by u on a has something to pay and the escrow cannot cover the
\* refund or cannot cover the payout.
ClaimTransferFails(a, u) ==
    /\ auctions[a].status = "Settled"
    /\ Unclaimed(user_auction_bids[<<u, a>>]) # <<>>
    /\ \/ accounts[Escrow] < RefundOwed(a, u)
       \/ token_accounts[Escrow] < ClaimOwed(user_auction_bids[<<u, a>>]).quantity

\* C29: a claim whose refund transfer or payout transfer fails aborts as a
\* whole: no bid record is marked claimed, no balance moves, nothing is
\* counted as received and no event is emitted, so the same claim is still
\* owed afterwards.
C29_FailedClaimAborts ==
    [][ \A a \in DOMAIN auctions, u \in Users :
          (ClaimTransferFails(a, u) /\ handle_claim_settlement(u, a))
            => /\ lastOp'.outcome = "aborted"
               /\ events' = <<>>
               /\ UNCHANGED <<state, ledgers, history>>
               /\ Unclaimed(user_auction_bids'[<<u, a>>]) = Unclaimed(user_auction_bids[<<u, a>>]) ]_vars

\* C29 witness: a claim has aborted on a failed payout; the claimant's
\* bids are still unclaimed and nothing has been received for them.
C29_Witness ==
    /\ lastOp.op = "claim" /\ lastOp.outcome = "aborted"
    /\ lastOp.reason = "transfer failed"
    /\ \E u \in Users :
          /\ ClaimTransferFails(lastOp.auction_id, u)
          /\ accounts[Escrow] >= RefundOwed(lastOp.auction_id, u)
          /\ received[<<lastOp.auction_id, u>>] = [quantity |-> 0, refund |-> 0]
          /\ paid_in[<<lastOp.auction_id, u>>] > 0

\* Bidder u paid for bids on a, never received anything for them, and the
\* records of a were removed by a prune 90 days or more after settlement.
Forfeited(a, u) ==
    /\ auctions[a].status = "Settled"
    /\ auctions[a].bids_pruned
    /\ paid_in[<<a, u>>] > 0
    /\ received[<<a, u>>] = [quantity |-> 0, refund |-> 0]

RECURSIVE SumForfeited(_)
SumForfeited(pairs) ==
    IF pairs = {} THEN 0
    ELSE LET k == CHOOSE x \in pairs : TRUE
         IN  paid_in[k] + SumForfeited(pairs \ {k})

\* C30: after a prune 90 days or more after settlement, a claim by a bidder
\* whose bids were still unclaimed is a no-op: it completes, pays no
\* allocation and no refund and emits nothing; the payment collected for
\* those bids stays in the escrow account.
C30_ClaimAfterFullPruneNoOp ==
    /\ [](SumForfeited({k \in (DOMAIN auctions) \X Users : Forfeited(k[1], k[2])})
              <= accounts[Escrow])
    /\ [][ \A a \in DOMAIN auctions, u \in Users :
              (Forfeited(a, u) /\ handle_claim_settlement(u, a))
                => /\ Completed(lastOp', "claim", "nothing to claim")
                   /\ events' = <<>>
                   /\ UNCHANGED <<state, ledgers, history>> ]_vars

\* C30 witness: a bidder whose unclaimed bids were pruned has claimed; the
\* claim paid nothing and the escrow still holds what the bidder paid.
C30_Witness ==
    /\ Completed(lastOp, "claim", "nothing to claim")
    /\ Forfeited(lastOp.auction_id, lastOp.caller)
    /\ user_auction_bids[<<lastOp.caller, lastOp.auction_id>>] = <<>>
    /\ accounts[Escrow] >= paid_in[<<lastOp.auction_id, lastOp.caller>>]
    /\ token_accounts[lastOp.caller] = 0

EventTypes(evs) == [i \in DOMAIN evs |-> evs[i].type]

C32_NewAuction ==
    [][ Completed(lastOp', "create", "created")
          => LET id == next_auction_id IN
             /\ lastOp'.auction_id = id
             /\ next_auction_id' = id + 1
             /\ id \notin DOMAIN auctions
             /\ DOMAIN auctions' = (DOMAIN auctions) \cup {id}
             /\ \A a \in DOMAIN auctions : auctions'[a] = auctions[a]
             /\ auctions'[id].sold = 0
             /\ auctions'[id].clearing_price = None
             /\ auctions'[id].settled_at = None
             /\ auctions'[id].bids_pruned = FALSE
             /\ auctions'[id].total_bids = 0
             /\ auctions'[id].total_bidders = 0
             /\ auctions'[id].total_supply = auctions'[id].params.total_supply
             /\ auctions'[id].status =
                    (IF now < auctions'[id].params.start_time THEN "Scheduled" ELSE "Active")
             /\ EventTypes(events') = <<"AuctionCreated">>
             /\ events'[1].auction_id = id
             /\ events'[1].params = auctions'[id].params ]_vars

\* C32 witness: an auction created before its start_time stands Scheduled
\* under id 0 and the counter has moved on.
C32_Witness ==
    /\ Completed(lastOp, "create", "created")
    /\ lastOp.auction_id = 0
    /\ next_auction_id = 1
    /\ now < auctions[0].params.start_time
    /\ auctions[0].status = "Scheduled"
    /\ EventTypes(events) = <<"AuctionCreated">>

\* An auction created at or after its start_time stands Active.
C32_CreatedActive ==
    /\ Completed(lastOp, "create", "created")
    /\ now >= auctions[lastOp.auction_id].params.start_time
    /\ auctions[lastOp.auction_id].status = "Active"

RECURSIVE SumUnclaimedPaid(_)
SumUnclaimedPaid(positions) ==
    IF positions = {} THEN 0
    ELSE LET p == CHOOSE x \in positions : TRUE
             b == user_auction_bids[p[1]][p[2]]
         IN  (IF b.claimed THEN 0 ELSE b.amount_paid) + SumUnclaimedPaid(positions \ {p})

\* C33: the payment balance held in escrow is at least the sum of
\* amount_paid over all unclaimed bid records, and so at least the refund
\* owed by any claim that can be made: a refund never fails for lack of
\* funds.
C33_EscrowCoversRefunds ==
    /\ accounts[Escrow] >= SumUnclaimedPaid(BidPositions(user_auction_bids))
    /\ \A a \in DOMAIN auctions, u \in Users :
          auctions[a].status = "Settled"
            => /\ RefundOwed(a, u) <= accounts[Escrow]
               /\ ~debit_panics(accounts, Escrow, RefundOwed(a, u))
    /\ (lastOp.op = "claim" /\ lastOp.outcome = "aborted" /\ lastOp.reason = "transfer failed")
          => \E u \in Users :
                token_accounts[Escrow] < ClaimOwed(user_auction_bids[<<u, lastOp.auction_id>>]).quantity

\* C33 witness: a refund is owed on a settled auction while another
\* bidder's unclaimed payment is also held; the escrow covers both.
C33_Witness ==
    \E a \in DOMAIN auctions, u \in Users :
        /\ auctions[a].status = "Settled"
        /\ RefundOwed(a, u) > 0
        /\ SumUnclaimedPaid(BidPositions(user_auction_bids)) > RefundOwed(a, u)
        /\ accounts[Escrow] >= SumUnclaimedPaid(BidPositions(user_auction_bids))

RECURSIVE SumOver(_, _)
SumOver(f, keys) ==
    IF keys = {} THEN 0
    ELSE LET k == CHOOSE x \in keys : TRUE IN f[k] + SumOver(f, keys \ {k})

RefundsIssued == [k \in DOMAIN received |-> received[k].refund]

\* What the escrow holds on account of auction a: what was paid in on it
\* less what was refunded on it.
EscrowOf(a) ==
    SumOver(paid_in, {a} \X Users) - SumOver(RefundsIssued, {a} \X Users)

\* Every bidder of the Settled auction a has claimed all that they bought.
AllClaimed(a) ==
    /\ auctions[a].status = "Settled"
    /\ auctions[a].sold > 0
    /\ \A u \in Users : received[<<a, u>>].quantity = user_totals[<<a, u>>]

EscrowConserved ==
    accounts[Escrow] = SumOver(paid_in, DOMAIN paid_in) - SumOver(RefundsIssued, DOMAIN received)

\* C34 as stated: the escrow balance equals all payments accepted less all
\* refunds issued, and for a settled auction on which every bidder has
\* claimed the escrow attributable to it equals sold x clearing_price.
C34_Original ==
    /\ EscrowConserved
    /\ \A a \in DOMAIN auctions :
          AllClaimed(a)
            => EscrowOf(a) = auctions[a].sold * Unwrap(auctions[a].clearing_price)

\* The cost of each bidder's total on a at the clearing price, each product
\* saturating at the largest amount, summed over the bidders.
RECURSIVE SaturatedCosts(_, _)
SaturatedCosts(a, users) ==
    IF users = {} THEN 0
    ELSE LET u == CHOOSE x \in users : TRUE
         IN  Min(Unwrap(auctions[a].clearing_price) * user_totals[<<a, u>>], AMOUNT_MAX)
               + SaturatedCosts(a, users \ {u})

\* C34: the escrow balance equals all payments accepted less all refunds
\* issued, and for a settled auction on which every bidder has claimed the
\* escrow attributable to it equals the sum over its bidders of
\* clearing_price x the bidder's total quantity, each product saturating at
\* the largest amount; that is sold x clearing_price when no product
\* saturates.
C34_EscrowConserved ==
    /\ EscrowConserved
    /\ \A a \in DOMAIN auctions :
          AllClaimed(a)
            => /\ EscrowOf(a) = SaturatedCosts(a, Users)
               /\ (\A u \in Users :
                      Unwrap(auctions[a].clearing_price) * user_totals[<<a, u>>] <= AMOUNT_MAX)
                    => EscrowOf(a) = auctions[a].sold * Unwrap(auctions[a].clearing_price)

\* C34 witness: both bidders of a settled auction have claimed, a refund
\* was paid, and the escrow holds exactly sold x clearing_price for it.
C34_Witness ==
    \E a \in DOMAIN auctions :
        /\ AllClaimed(a)
        /\ \A u \in Users : user_totals[<<a, u>>] > 0
        /\ \E u \in Users : received[<<a, u>>].refund > 0
        /\ EscrowOf(a) = auctions[a].sold * Unwrap(auctions[a].clearing_price)
        /\ accounts[Escrow] >= EscrowOf(a)

\* Ledger accts changed only by a transfer from the escrow to owner A.
PaidOnlyTo(accts_before, accts_after, A) ==
    /\ \A o \in Owners \ {A, Escrow} : accts_after[o] = accts_before[o]
    /\ accts_after[A] >= accts_before[A]
    /\ accts_after[A] - accts_before[A] = accts_before[Escrow] - accts_after[Escrow]

\* C35: a claim by caller A on auction X changes only the claimed flags of
\* A's own bid records on X: all other bid records, every auction record,
\* the user totals and both counters are unchanged, and transfers go only
\* from the escrow to A.
C35_ClaimFrame ==
    [][ lastOp'.op = "claim" /\ lastOp'.outcome \in {"claimed", "nothing to claim"}
          => LET A == lastOp'.caller
                 X == lastOp'.auction_id
             IN  /\ auctions' = auctions
                 /\ user_totals' = user_totals
                 /\ next_auction_id' = next_auction_id
                 /\ next_bid_id' = next_bid_id
                 /\ \A k \in DOMAIN user_auction_bids :
                       k # <<A, X>> => user_auction_bids'[k] = user_auction_bids[k]
                 /\ Len(user_auction_bids'[<<A, X>>]) = Len(user_auction_bids[<<A, X>>])
                 /\ \A i \in DOMAIN user_auction_bids[<<A, X>>] :
                       Unflagged(user_auction_bids'[<<A, X>>][i])
                           = Unflagged(user_auction_bids[<<A, X>>][i])
                 /\ PaidOnlyTo(accounts, accounts', A)
                 /\ PaidOnlyTo(token_accounts, token_accounts', A) ]_vars

\* C35 witness: a bidder has claimed on an auction on which another bidder
\* holds an unclaimed record; the claimant was paid tokens, the other
\* bidder was not.
C35_Witness ==
    /\ Completed(lastOp, "claim", "claimed")
    /\ token_accounts[lastOp.caller] > 0
    /\ \E u \in Users \ {lastOp.caller} :
          /\ Unclaimed(user_auction_bids[<<u, lastOp.auction_id>>]) # <<>>
          /\ token_accounts[u] = 0
    /\ \A i \in DOMAIN user_auction_bids[<<lastOp.caller, lastOp.auction_id>>] :
          user_auction_bids[<<lastOp.caller, lastOp.auction_id>>][i].claimed

\* The bid records stored for auction a.
RecordsOf(a) == {b \in AllBids(user_auction_bids) : b.auction_id = a}

\* C36 as stated: the clearing price of a settled auction is at least
\* floor_price, and amount_paid >= quantity x clearing_price for every bid
\* record of that auction.
C36_Original ==
    \A a \in DOMAIN auctions :
        auctions[a].status = "Settled"
          => LET cp == Unwrap(auctions[a].clearing_price) IN
             /\ cp >= auctions[a].params.floor_price
             /\ \A b \in RecordsOf(a) : b.amount_paid >= b.quantity * cp

\* C36: the clearing price of a settled auction is at least floor_price,
\* and every bid record of that auction paid at least quantity x
\* clearing_price, the product saturating at the largest amount.
C36_ClearingPriceBounds ==
    \A a \in DOMAIN auctions :
        auctions[a].status = "Settled"
          => LET cp == Unwrap(auctions[a].clearing_price) IN
             /\ cp >= auctions[a].params.floor_price
             /\ \A b \in RecordsOf(a) :
                   /\ b.amount_paid >= Min(b.quantity * cp, AMOUNT_MAX)
                   /\ b.amount_paid < AMOUNT_MAX => b.amount_paid >= b.quantity * cp

\* C36 witness: a settled auction holds a record bought above the clearing
\* price and one bought at it, and the clearing price is above the floor.
C36_Witness ==
    \E a \in DOMAIN auctions :
        /\ auctions[a].status = "Settled"
        /\ Unwrap(auctions[a].clearing_price) > auctions[a].params.floor_price
        /\ \E b, c \in RecordsOf(a) :
              /\ b.quantity > 0 /\ c.quantity > 0
              /\ b.amount_paid > b.quantity * Unwrap(auctions[a].clearing_price)
              /\ c.amount_paid = c.quantity * Unwrap(auctions[a].clearing_price)

\* C37: every Settled auction was settled for one of the two causes: it
\* has sold = total_supply or settled_at > end_time.
C37_SettledForACause ==
    \A a \in DOMAIN auctions :
        auctions[a].status = "Settled"
          => /\ auctions[a].settled_at # None
             /\ \/ auctions[a].sold = auctions[a].total_supply
                \/ Unwrap(auctions[a].settled_at) > auctions[a].params.end_time

\* C37 witness: an auction settled on expiry with supply left, after its
\* end_time.
C37_Witness ==
    \E a \in DOMAIN auctions :
        /\ auctions[a].status = "Settled"
        /\ auctions[a].sold < auctions[a].total_supply
        /\ Unwrap(auctions[a].settled_at) > auctions[a].params.end_time

\* An auction settled by exhaustion before its end_time.
C37_SettledByExhaustion ==
    \E a \in DOMAIN auctions :
        /\ auctions[a].status = "Settled"
        /\ auctions[a].sold = auctions[a].total_supply
        /\ Unwrap(auctions[a].settled_at) <= auctions[a].params.end_time

\* C38: a Cancelled auction never has and never gets any bids: it has
\* sold = 0, total_bids = 0, no bid records and no payment held in escrow
\* for it.
C38_CancelledHasNoBids ==
    \A a \in DOMAIN auctions :
        auctions[a].status = "Cancelled"
          => /\ auctions[a].sold = 0
             /\ auctions[a].total_bids = 0
             /\ auctions[a].total_bidders = 0
             /\ RecordsOf(a) = {}
             /\ \A u \in Users :
                   /\ user_auction_bids[<<u, a>>] = <<>>
                   /\ user_totals[<<a, u>>] = 0
                   /\ paid_in[<<a, u>>] = 0

\* C38 witness: a bid by a funded bidder on a Cancelled auction, at a time
\* inside its bidding window, has been rejected and left it without bids.
C38_Witness ==
    /\ Completed(lastOp, "bid", "rejected")
    /\ auctions[lastOp.auction_id].status = "Cancelled"
    /\ auctions[lastOp.auction_id].total_supply > 0
    /\ now >= auctions[lastOp.auction_id].params.start_time
    /\ now <= auctions[lastOp.auction_id].params.end_time
    /\ accounts[lastOp.caller] > 0
    /\ auctions[lastOp.auction_id].total_bids = 0
    /\ accounts[Escrow] = 0

\* A place-bid with requested quantity 0.
ZeroQuantityBidStep ==
    \E caller \in Callers, a \in Targets, r \in FungibleResponses :
        handle_place_bid(caller, a, 0, r)

\* C39: every bid record has an accepted quantity of at least 1: a
\* place-bid with requested quantity 0 never creates a bid record, never
\* consumes a bid id and never increments total_bids or total_bidders.
C39_NoZeroQuantityBids ==
    /\ [](\A b \in AllBids(user_auction_bids) : b.quantity >= 1)
    /\ [][ ZeroQuantityBidStep
              => /\ UNCHANGED <<user_auction_bids, next_bid_id>>
                 /\ \A a \in DOMAIN auctions :
                       /\ auctions'[a].total_bids = auctions[a].total_bids
                       /\ auctions'[a].total_bidders = auctions[a].total_bidders ]_vars

====
